---- MODULE Spec2Model ----
(***************************************************************************)
(* A model of github-api-paginated.py: the pagination / retry / rate-limit *)
(* control loop get_paginated_data with its helpers parse_data and         *)
(* check_rate_limit.                                                       *)
(*                                                                         *)
(* One run of get_paginated_data is modelled.  The server and the network  *)
(* are the environment: every request draws its outcome (a transport       *)
(* exception, or a response with a status, headers and a body) from small  *)
(* sets.  Header values are texts (sequences of characters or of lexical   *)
(* tokens), so that int(...) and the Link pattern are computed, not        *)
(* assumed.                                                                *)
(***************************************************************************)
EXTENDS Integers, Sequences, FiniteSets, TLC

(***************************************************************************)
(* Bounds of the model.                                                    *)
(***************************************************************************)
\* the largest retry ceiling max_retries a run is started with
MaxRetries == 3
\* the longest chain of pages the server links together
MaxPages == 2
\* the number of quota-exhausted 403 responses the server gives in one run
MaxRateLimited == 2
\* the earliest reading of the clock (time.time()) in a run
Now0 == 10
\* the most keys of a mapping that parse_data is given on its own
MaxDictLen == 4
\* the most items of a list that parse_data is given on its own
MaxListLen == 2

(***************************************************************************)
(* Texts.  A header value is a sequence of characters; int() reads it.     *)
(***************************************************************************)
Digits == <<"0", "1", "2", "3", "4", "5", "6", "7", "8", "9">>

IsDigit(c) == \E i \in 1..10 : Digits[i] = c

DigitVal(c) == (CHOOSE i \in 1..10 : Digits[i] = c) - 1

RECURSIVE DigitsVal(_)
DigitsVal(s) ==
    IF s = <<>> THEN 0
    ELSE 10 * DigitsVal(SubSeq(s, 1, Len(s) - 1)) + DigitVal(s[Len(s)])

AllDigits(s) == s # <<>> /\ \A i \in 1..Len(s) : IsDigit(s[i])

\* int(text) is defined: an optional sign followed by decimal digits
IntParses(s) ==
    IF s # <<>> /\ s[1] \in {"-", "+"} THEN AllDigits(Tail(s)) ELSE AllDigits(s)

\* the value of int(text) where it is defined
IntOf(s) ==
    IF s[1] = "-" THEN 0 - DigitsVal(Tail(s))
    ELSE IF s[1] = "+" THEN DigitsVal(Tail(s))
    ELSE DigitsVal(s)

(***************************************************************************)
(* Headers: a header is present with a text, or absent.                    *)
(***************************************************************************)
Header(v) == [has |-> TRUE, v |-> v]

NoHeader == [has |-> FALSE, v |-> <<>>]

\* a lookup whose default is 1
IntHeader_Default1(h) ==
    IF ~h.has THEN [ok |-> TRUE, n |-> 1]
    ELSE IF IntParses(h.v) THEN [ok |-> TRUE, n |-> IntOf(h.v)]
    ELSE [ok |-> FALSE, n |-> 0]

\* response.headers.get(name, 0) followed by int(...): the header's integer,
\* 0 when the header is absent; ok is FALSE where int() raises ValueError
IntHeader(h) ==
    IF ~h.has THEN [ok |-> TRUE, n |-> 0]
    ELSE IF IntParses(h.v) THEN [ok |-> TRUE, n |-> IntOf(h.v)]
    ELSE [ok |-> FALSE, n |-> 0]

Max(a, b) == IF a >= b THEN a ELSE b

RECURSIVE Pow2(_)
Pow2(n) == IF n <= 0 THEN 1 ELSE 2 * Pow2(n - 1)

(***************************************************************************)
(* The Link header is a sequence of lexical tokens: the punctuation        *)
(* characters, the relation words (rel=next stands for the text            *)
(* rel="next"), and url atoms standing for a run of characters that holds  *)
(* no whitespace and no angle bracket.                                     *)
(***************************************************************************)
Sym(s) == [t |-> s, n |-> 0]

UrlAtom(n) == [t |-> "url", n |-> n]

LT == Sym("<")
GT == Sym(">")
SEMI == Sym(";")
SP == Sym(" ")
COMMA == Sym(",")

Rel(name) == Sym(name)

\* an entry <url>; rel="name" of a Link header
LinkEntry(n, rel) == <<LT, UrlAtom(n), GT, SEMI, SP, Rel(rel)>>

\* re.IGNORECASE: the token with its letters folded to lower case
Lower(tok) ==
    IF tok.t = "rel=NEXT" THEN Sym("rel=next")
    ELSE IF tok.t = "REL=next" THEN Sym("rel=next")
    ELSE tok

\* \S of the pattern: any token but whitespace
NonSpace(tok) == tok # SP

\* the lookahead (?=>; rel="next") holds at position j of header h
LookAhead(h, j) ==
    /\ j + 3 <= Len(h)
    /\ h[j] = GT
    /\ h[j + 1] = SEMI
    /\ h[j + 2] = SP
    /\ Lower(h[j + 3]) = Sym("rel=next")

\* group 1 can span positions i..j-1 (empty when j = i)
SpanOK(h, i, j) ==
    /\ i > 1
    /\ h[i - 1] = LT
    /\ \A k \in i..(j - 1) : NonSpace(h[k])
    /\ LookAhead(h, j)

MatchStarts(h) == {i \in 1..(Len(h) + 1) : \E j \in i..Len(h) : SpanOK(h, i, j)}

\* a pattern that takes the url of the first entry, whatever its relation
next_pattern_first(h) ==
    IF \E i \in 1..Len(h) : h[i] = GT
    THEN [found |-> TRUE,
          group1 |-> SubSeq(h, 2, (CHOOSE i \in 1..Len(h) :
                                      h[i] = GT /\ \A k \in 1..(i - 1) : h[k] # GT) - 1)]
    ELSE [found |-> FALSE, group1 |-> <<>>]

\* next_pattern.search(link_header): the leftmost match, its group taken
\* greedily; found is FALSE where search returns None
next_pattern_search(h) ==
    IF MatchStarts(h) = {} THEN [found |-> FALSE, group1 |-> <<>>]
    ELSE LET i == CHOOSE a \in MatchStarts(h) : \A b \in MatchStarts(h) : a <= b
             j == CHOOSE a \in i..Len(h) :
                      /\ SpanOK(h, i, a)
                      /\ \A b \in i..Len(h) : SpanOK(h, i, b) => b <= a
         IN [found |-> TRUE, group1 |-> SubSeq(h, i, j - 1)]

\* link_header and 'rel="next"' in link_header
HasNext(link) ==
    /\ link.has
    /\ link.v # <<>>
    /\ \E i \in 1..Len(link.v) : link.v[i] = Sym("rel=next")

(***************************************************************************)
(* Page bodies: the decoded JSON of a response.  A value is a list (of      *)
(* items, which the model leaves opaque), null, a number, or a mapping      *)
(* from keys to values.                                                     *)
(***************************************************************************)
JList(items) == [kind |-> "list", list |-> items, dict |-> <<>>]

JNull == [kind |-> "null", list |-> <<>>, dict |-> <<>>]

\* a JSON number
JNum(n) == [kind |-> "num", list |-> <<n>>, dict |-> <<>>]

\* a mapping, as the sequence of its (key, value) pairs in insertion order
JDict(pairs) == [kind |-> "dict", list |-> <<>>, dict |-> pairs]

KV(k, v) == [key |-> k, val |-> v]

\* the keys popped at lines 56-58
MetaKeys == {"incomplete_results", "repository_selection", "total_count"}

\* a parser that pops total_count alone
RECURSIVE StripMeta_OnePop(_)
StripMeta_OnePop(pairs) ==
    IF pairs = <<>> THEN <<>>
    ELSE IF Head(pairs).key = "total_count" THEN StripMeta_OnePop(Tail(pairs))
    ELSE <<Head(pairs)>> \o StripMeta_OnePop(Tail(pairs))

\* data.pop(key, None) for the three metadata keys: the pairs that are left,
\* in the order they had
RECURSIVE StripMeta(_)
StripMeta(pairs) ==
    IF pairs = <<>> THEN <<>>
    ELSE IF Head(pairs).key \in MetaKeys THEN StripMeta(Tail(pairs))
    ELSE <<Head(pairs)>> \o StripMeta(Tail(pairs))

\* a test that takes the absent body alone for empty
Falsy_NullOnly(v) == v.kind = "null"

\* not data (line 49): None, an empty mapping, an empty list, the number 0
Falsy(v) ==
    \/ v.kind = "null"
    \/ v.kind = "dict" /\ v.dict = <<>>
    \/ v.kind = "list" /\ v.list = <<>>
    \/ v.kind = "num" /\ v.list = <<0>>

\* len(value) is defined (line 64): lists and mappings have a length,
\* numbers and None have none
Sized(v) == v.kind \in {"list", "dict"}

\* the outcome of parse_data: the exception it raises ("none" when it
\* returns) and the value it returns
Returns(v) == [raises |-> "none", ret |-> v]

Raises(e) == [raises |-> e, ret |-> JNull]

\* a parser that takes the last key that is left
parse_wrapped_Last(body) ==
    IF body.kind # "dict" THEN Raises("AttributeError")
    ELSE LET rest == StripMeta(body.dict)
         IN IF rest = <<>> THEN Raises("IndexError")
            ELSE IF ~Sized(rest[Len(rest)].val) THEN Raises("TypeError")
            ELSE Returns(rest[Len(rest)].val)

\* lines 53-65 of parse_data: the metadata keys are popped from a copy of the
\* mapping and the value of the first key that is left is returned;
\* list(data.keys())[0] raises IndexError when no key is left, and len(data)
\* in the log line raises TypeError when the value has no length
parse_wrapped(body) ==
    IF body.kind # "dict" THEN Raises("AttributeError")
    ELSE LET rest == StripMeta(body.dict)
         IN IF rest = <<>> THEN Raises("IndexError")
            ELSE IF ~Sized(rest[1].val) THEN Raises("TypeError")
            ELSE Returns(rest[1].val)

\* a parser without the case of a bare list
parse_data_NoListCase(body) ==
    IF Falsy(body) THEN Returns(JList(<<>>)) ELSE parse_wrapped(body)

\* parse_data(data, page_number)
parse_data(body) ==
    IF body.kind = "list" THEN Returns(body)
    ELSE IF Falsy(body) THEN Returns(JList(<<>>))
    ELSE parse_wrapped(body)

\* a result that takes the items of a page in front of the others
extend_Front(d, v) ==
    IF v.kind = "list" THEN [raises |-> "none", data |-> v.list \o d]
    ELSE IF v.kind = "dict"
    THEN [raises |-> "none", data |-> [i \in 1..Len(v.dict) |-> v.dict[i].key] \o d]
    ELSE [raises |-> "TypeError", data |-> d]

\* data.extend(parsed_data) (line 141): the elements of a list, the keys of
\* a mapping; a value that cannot be iterated raises TypeError
extend(d, v) ==
    IF v.kind = "list" THEN [raises |-> "none", data |-> d \o v.list]
    ELSE IF v.kind = "dict"
    THEN [raises |-> "none", data |-> d \o [i \in 1..Len(v.dict) |-> v.dict[i].key]]
    ELSE [raises |-> "TypeError", data |-> d]

\* a wait that ends at the reset second, not one second after it
check_rate_limit_NoMargin(resp, t) ==
    LET remaining == IntHeader(resp.remaining)
        reset_time == IntHeader(resp.reset)
    IN IF ~remaining.ok \/ ~reset_time.ok
       THEN [raises |-> "ValueError", slept |-> <<>>]
       ELSE IF remaining.n = 0
       THEN [raises |-> "GitHubRateLimitError",
             slept |-> <<Max(reset_time.n - t, 0)>>]
       ELSE [raises |-> "none", slept |-> <<>>]

(***************************************************************************)
(* check_rate_limit(response) at clock reading t: the exception it raises  *)
(* ("none" when it returns) and the seconds it slept before that.          *)
(***************************************************************************)
check_rate_limit(resp, t) ==
    LET remaining == IntHeader(resp.remaining)
        reset_time == IntHeader(resp.reset)
    IN IF ~remaining.ok \/ ~reset_time.ok
       THEN [raises |-> "ValueError", slept |-> <<>>]
       ELSE IF remaining.n = 0
       THEN [raises |-> "GitHubRateLimitError",
             slept |-> <<Max(reset_time.n - t + 1, 0)>>]
       ELSE [raises |-> "none", slept |-> <<>>]

\* response.raise_for_status() raises HTTPError
RaisesForStatus(status) == status >= 400 /\ status < 600

\* an except clause that catches connection errors alone
IsRequestException_Narrow(e) == e = "ConnectionError"

\* the exception classes that except requests.exceptions.RequestException
\* catches: the transport exceptions and HTTPError are subclasses of it
IsRequestException(e) == e \in {"ConnectionError", "Timeout", "HTTPError"}

\* an except clause that forgets to count the failure
ExceptClause_NoCount(r, ceiling) ==
    IF r >= ceiling THEN [retries |-> r, brk |-> TRUE, slept |-> <<>>]
    ELSE [retries |-> r, brk |-> FALSE, slept |-> <<Pow2(r)>>]

\* an except clause that takes the wait from the counter before the increment
ExceptClause_WaitBefore(r, ceiling) ==
    LET r1 == r + 1
    IN IF r1 >= ceiling THEN [retries |-> r1, brk |-> TRUE, slept |-> <<>>]
       ELSE [retries |-> r1, brk |-> FALSE, slept |-> <<Pow2(r)>>]

\* the except clause: the counter after the increment, whether the loop is
\* left by break, and the backoff sleep
ExceptClause(r, ceiling) ==
    LET r1 == r + 1
    IN IF r1 >= ceiling THEN [retries |-> r1, brk |-> TRUE, slept |-> <<>>]
       ELSE [retries |-> r1, brk |-> FALSE, slept |-> <<Pow2(r1)>>]

(***************************************************************************)
(* The environment's inputs.                                               *)
(***************************************************************************)
Txt0 == <<"0">>
Txt5 == <<"5">>
TxtSoon == <<"1", "5">>
TxtJunk == <<"1", "x">>

Resp(status, remaining, reset, link, body) ==
    [status |-> status, remaining |-> remaining, reset |-> reset,
     link |-> link, body |-> body]

\* the value of the variable response before the first request
NoResponse == Resp(0, NoHeader, NoHeader, NoHeader, JNull)

\* 403 responses: the quota headers present, absent or not a number
Responses403 ==
    {Resp(403, Header(Txt0), Header(TxtSoon), NoHeader, JNull),
     Resp(403, NoHeader, NoHeader, NoHeader, JNull),
     Resp(403, Header(Txt5), Header(TxtSoon), NoHeader, JNull),
     Resp(403, Header(TxtJunk), Header(TxtSoon), NoHeader, JNull),
     Resp(403, Header(Txt0), Header(TxtJunk), NoHeader, JNull)}

\* other unsuccessful statuses
ResponsesError ==
    {Resp(st, Header(Txt5), Header(TxtSoon), NoHeader, JNull) : st \in {404, 500}}

\* the items of page n, in server order
PageItems(n) == <<10 * n + 1, 10 * n + 2>>

\* the bodies the server gives for page n: a bare list, nothing, a mapping
\* without keys, and a mapping that holds metadata keys alone
Bodies(n) ==
    {JList(PageItems(n)), JNull, JDict(<<>>), JDict(<<KV("total_count", JNum(2))>>)}

\* the Link headers of page n: absent, a next entry alone, a next entry
\* among others, and a next entry written without the space
Links(n) ==
    {NoHeader,
     Header(LinkEntry(n + 1, "rel=next")),
     Header(LinkEntry(n - 1, "rel=prev") \o <<COMMA, SP>>
            \o LinkEntry(n + 1, "rel=next") \o <<COMMA, SP>>
            \o LinkEntry(n + 5, "rel=last")),
     Header(<<LT, UrlAtom(n + 1), GT, SEMI, Rel("rel=next")>>)}

ResponsesOK(n) ==
    {Resp(200, Header(Txt5), Header(TxtSoon), l, b) : l \in Links(n), b \in Bodies(n)}

TransportExceptions == {"ConnectionError", "Timeout"}

StartUrl == <<UrlAtom(1)>>

(***************************************************************************)
(* State.                                                                  *)
(***************************************************************************)
VARIABLES
    pc,              \* "start", "loop", "exit", "returned", "raised"
    token,           \* the credential: "" while none is known
    tokenCalls,      \* calls of get_github_token
    max_retries,
    url,
    pages_remaining,
    data,
    retries,
    page_number,
    response,        \* the latest response received
    current_time,    \* time.time() as read by the latest rate-limit round
    exc,             \* the exception that left get_paginated_data, or "none"
    result,          \* the value returned
    got,             \* what the latest request gave: "none", "exception", "response"
    slept,           \* the sleeps of the latest loop round, in order
    pre,             \* url, retries, page_number, data before the latest round
    nreq,            \* requests issued
    seen,            \* the kinds of outcome the requests have had so far
    streak,          \* the transport exceptions in a row up to the latest request
    nlimited,        \* rate-limit rounds
    fetched,         \* the bodies of the pages fetched successfully, in order
    main_pc,         \* main(): "none" (not running), "call", "json", "end", "caught"
    files,           \* the output files that exist, in the order they were opened
    parse_arg,       \* the body a call of parse_data on its own is given
    parse_ret        \* the outcome of that call

vars == <<pc, token, tokenCalls, max_retries, url, pages_remaining, data, retries,
          page_number, response, current_time, exc, result, got, slept, pre, nreq, seen, streak, nlimited, fetched,
          main_pc, files, parse_arg, parse_ret>>

\* the variables of main() and of the call of parse_data on its own
outer == <<main_pc, files, parse_arg, parse_ret>>

\* parse_data has not been called on its own
NotParsed == Raises("pending")

Snapshot == [url |-> url, retries |-> retries, page_number |-> page_number,
             data |-> data]

\* the token argument: None (or the empty text), or a token
TokenArgs == {"", "supplied"}

\* the default of the parameter max_retries
DefaultMaxRetries == 3

\* the state at a call get_paginated_data(url, tok, ceiling)
Called(tok, ceiling) ==
    /\ pc = "start"
    /\ token = tok
    /\ tokenCalls = 0
    /\ max_retries = ceiling
    /\ url = StartUrl
    /\ pages_remaining = TRUE
    /\ data = <<>>
    /\ retries = 0
    /\ page_number = 1
    /\ response = NoResponse
    /\ current_time = 0
    /\ exc = "none"
    /\ result = <<>>
    /\ got = "none"
    /\ slept = <<>>
    /\ pre = [url |-> StartUrl, retries |-> 0, page_number |-> 1,
              data |-> <<>>]
    /\ nreq = 0
    /\ seen = {}
    /\ streak = 0
    /\ nlimited = 0
    /\ fetched = <<>>

\* get_paginated_data is called with or without a token and with a ceiling
Init ==
    /\ \E tok \in TokenArgs, ceiling \in 0..MaxRetries : Called(tok, ceiling)
    /\ main_pc = "none"
    /\ files = <<>>
    /\ parse_arg = JNull
    /\ parse_ret = NotParsed

(***************************************************************************)
(* get_paginated_data.                                                     *)
(***************************************************************************)
\* get_github_token(): the environment variable, or what the user types
TokenSources == {"resolved"}

\* a run that resolves the credential whatever the caller supplied
NeedsToken_Always(tok) == TRUE

\* not token (line 94)
NeedsToken(tok) == tok = ""

\* lines 93-109: the credential is resolved and the loop is entered
Start ==
    /\ pc = "start"
    /\ IF NeedsToken(token)
       THEN /\ token' \in TokenSources
            /\ tokenCalls' = tokenCalls + 1
       ELSE UNCHANGED <<token, tokenCalls>>
    /\ pc' = "loop"
    /\ UNCHANGED <<max_retries, url, pages_remaining, data, retries, page_number,
                   response, current_time, exc, result, got, slept, pre, nreq, seen, streak, nlimited, fetched>>
    /\ UNCHANGED outer

\* a loop that runs once more at the ceiling
LoopCondition_Le == pages_remaining /\ retries <= max_retries

\* the while condition
LoopCondition == pages_remaining /\ retries < max_retries

Sleep(by, secs) == [by |-> by, secs |-> secs]

GateSleeps(g) == IF g.slept = <<>> THEN <<>> ELSE <<Sleep("check_rate_limit", g.slept[1])>>

\* a success that leaves the counter as it is
ResetRetries_Keep(r) == r

\* retries = 0 (line 156)
ResetRetries(r) == 0

\* a handler that lets the rate-limit exception through
CaughtInner_None(e) == FALSE

\* except GitHubRateLimitError (line 126): the exceptions the inner try catches
CaughtInner(e) == e = "GitHubRateLimitError"

\* The try block (lines 112-156) on input in: a transport exception raised
\* by requests.get, or a response.  raised is the exception that leaves the
\* block ("none": it ran to its end, or to continue when cont holds); the
\* other fields are the values of the variables at that point.
TryBlock(in) ==
    LET same == [raised |-> "none", cont |-> FALSE, slept |-> <<>>, data |-> data,
                 pages_remaining |-> pages_remaining, url |-> url,
                 page_number |-> page_number, retries |-> retries, parsed |-> FALSE]
    IN IF in.exc # "none" THEN [same EXCEPT !.raised = in.exc]
       ELSE IF in.resp.status = 403
       THEN LET g == check_rate_limit(in.resp, in.t)
            IN IF g.raises # "none" /\ CaughtInner(g.raises)
               THEN [same EXCEPT !.cont = TRUE, !.slept = GateSleeps(g)]
               ELSE IF g.raises # "none"
               THEN [same EXCEPT !.raised = g.raises]
               ELSE [same EXCEPT !.raised = "HTTPError"]
       ELSE IF RaisesForStatus(in.resp.status)
       THEN [same EXCEPT !.raised = "HTTPError"]
       ELSE LET p == parse_data(in.resp.body)
                x == extend(data, p.ret)
                more == HasNext(in.resp.link)
                m == next_pattern_search(in.resp.link.v)
            IN IF p.raises # "none" THEN [same EXCEPT !.raised = p.raises]
               ELSE IF x.raises # "none" THEN [same EXCEPT !.raised = x.raises]
               ELSE IF more /\ ~m.found
               THEN [same EXCEPT !.raised = "AttributeError",
                                 !.data = x.data,
                                 !.pages_remaining = TRUE,
                                 !.parsed = TRUE]
               ELSE [same EXCEPT !.data = x.data,
                                 !.pages_remaining = more,
                                 !.url = IF more THEN m.group1 ELSE url,
                                 !.page_number = IF more THEN page_number + 1
                                                 ELSE page_number,
                                 !.retries = ResetRetries(retries),
                                 !.parsed = TRUE]

\* what a request gave, as the network shows it: a transport exception, or
\* a response of one of three classes of status
OutcomeKind(in) ==
    IF in.exc # "none" THEN "exception"
    ELSE IF in.resp.status = 403 THEN "403"
    ELSE IF in.resp.status >= 400 THEN "error"
    ELSE "ok"

\* the requests the model follows a run for; no run issues as many
MaxRequests == MaxPages * MaxRetries + MaxRateLimited + 1

\* One round of the while loop (lines 111-169): the request, the try block
\* and the except clause.
Iterate(in) ==
    /\ pc = "loop"
    /\ LoopCondition
    /\ nreq < MaxRequests
    /\ \E T \in {TryBlock(in)} :
       \E E \in {ExceptClause(T.retries, max_retries)} :
       LET caught == T.raised # "none" /\ IsRequestException(T.raised)
           sleeps == IF caught /\ E.slept # <<>>
                     THEN T.slept \o <<Sleep("backoff", E.slept[1])>>
                     ELSE T.slept
       IN /\ pre' = Snapshot
          /\ nreq' = nreq + 1
          /\ got' = IF in.exc # "none" THEN "exception" ELSE "response"
          /\ seen' = seen \cup {OutcomeKind(in)}
          /\ streak' = IF in.exc # "none" THEN streak + 1 ELSE 0
          /\ response' = IF in.exc # "none" THEN response ELSE in.resp
          /\ data' = T.data
          /\ pages_remaining' = T.pages_remaining
          /\ url' = T.url
          /\ page_number' = T.page_number
          /\ fetched' = IF T.parsed THEN Append(fetched, in.resp.body) ELSE fetched
          /\ nlimited' = IF T.cont THEN nlimited + 1 ELSE nlimited
          /\ retries' = IF caught THEN E.retries ELSE T.retries
          /\ slept' = sleeps
          /\ current_time' = IF T.cont THEN in.t ELSE current_time
          /\ exc' = IF T.raised # "none" /\ ~caught THEN T.raised ELSE exc
          /\ pc' = IF T.raised = "none" THEN "loop"
                   ELSE IF ~caught THEN "raised"
                   ELSE IF E.brk THEN "exit"
                   ELSE "loop"
    /\ UNCHANGED <<token, tokenCalls, max_retries, result>>
    /\ UNCHANGED outer

\* the readings of the clock: before and after the quota reset the server names
ClockReadings == {Now0, Now0 + 6}

\* a round's input: the transport exception or the response, and the clock
NoExc(r, t) == [exc |-> "none", resp |-> r, t |-> t]

\* the 403 responses that the code takes for an exhausted quota
TakenForLimit(r) == check_rate_limit(r, 0).raises = "GitHubRateLimitError"

\* requests.get raises a transport exception
TransportFailure ==
    \E e \in TransportExceptions : Iterate([exc |-> e, resp |-> NoResponse, t |-> Now0])

\* the server answers 403; it does not do so for an exhausted quota forever
Respond403 ==
    \E r \in Responses403, t \in ClockReadings :
        /\ TakenForLimit(r) => nlimited < MaxRateLimited
        /\ Iterate(NoExc(r, t))

\* the server answers with another unsuccessful status
RespondError == \E r \in ResponsesError : Iterate(NoExc(r, Now0))

\* the server answers with a page; the chain of next links is finite
RespondOK ==
    \E r \in ResponsesOK(page_number) :
        /\ HasNext(r.link) => page_number < MaxPages
        /\ Iterate(NoExc(r, Now0))

\* the while condition fails
LoopExit ==
    /\ pc = "loop"
    /\ ~LoopCondition
    /\ pc' = "exit"
    /\ UNCHANGED <<token, tokenCalls, max_retries, url, pages_remaining, data,
                   retries, page_number, response, current_time, exc, result, got, slept,
                   pre, nreq, seen, streak, nlimited, fetched>>
    /\ UNCHANGED outer

\* lines 171-172: return data
Return ==
    /\ pc = "exit"
    /\ result' = data
    /\ pc' = "returned"
    /\ UNCHANGED <<token, tokenCalls, max_retries, url, pages_remaining, data,
                   retries, page_number, response, current_time, exc, got, slept, pre,
                   nreq, seen, streak, nlimited, fetched>>
    /\ UNCHANGED outer

Next ==
    \/ Start
    \/ TransportFailure
    \/ Respond403
    \/ RespondError
    \/ RespondOK
    \/ LoopExit
    \/ Return

Spec == Init /\ [][Next]_vars

\* the run is one thread that keeps running, and every request comes back
FairSpec == Spec /\ WF_vars(Next)

\* the terminal states of the run
Done == pc = "returned" /\ ~pages_remaining

Aborted == pc = "returned" /\ pages_remaining

Raised == pc = "raised"

TypeOK ==
    /\ pc \in {"start", "loop", "exit", "returned", "raised"}
    /\ retries \in 0..(MaxRetries + 1)
    /\ page_number \in 1..(MaxPages + 1)
    /\ pages_remaining \in BOOLEAN

(***************************************************************************)
(* main(): the call get_paginated_data(url) with the defaults, then the    *)
(* two writers, all inside try ... except Exception.                       *)
(***************************************************************************)
\* the variables of the run of get_paginated_data
run == <<pc, token, tokenCalls, max_retries, url, pages_remaining, data, retries,
         page_number, response, current_time, exc, result, got, slept, pre, nreq,
         seen, streak, nlimited, fetched>>

MainInit ==
    /\ Called("", DefaultMaxRetries)
    /\ main_pc = "call"
    /\ files = <<>>
    /\ parse_arg = JNull
    /\ parse_ret = NotParsed

\* the flattened keys of an item: the records of the second page and of
\* later pages carry a field that the records of the first page lack
ItemFields(item) == IF item >= 20 THEN {"id", "actor"} ELSE {"id"}

File(name, rows) == [name |-> name, rows |-> rows]

\* save_to_json(data): the file is written with every item
save_to_json(d) == [raises |-> "none", files |-> <<File("json", Len(d))>>]

\* save_to_csv(data): nothing is written for an empty result; the header is
\* the flattened key set of the first item, and DictWriter.writerow raises
\* ValueError at the first item that holds a field outside the header,
\* after the rows before it
save_to_csv(d) ==
    IF d = <<>> THEN [raises |-> "none", files |-> <<>>]
    ELSE LET keys == ItemFields(d[1])
             bad == {i \in 1..Len(d) : ~(ItemFields(d[i]) \subseteq keys)}
         IN IF bad = {} THEN [raises |-> "none", files |-> <<File("csv", Len(d))>>]
            ELSE [raises |-> "ValueError",
                  files |-> <<File("csv", (CHOOSE i \in bad : \A j \in bad : i <= j) - 1)>>]

\* writers that run whether the call returned or raised
Handoff_Finally == pc \in {"returned", "raised"}

\* the statements after the call at line 250 run once it has returned
Handoff == pc = "returned"

\* except Exception (line 262): the exceptions it catches
CaughtByMain(e) ==
    e \in {"ValueError", "IndexError", "AttributeError", "TypeError", "HTTPError",
           "ConnectionError", "Timeout", "GitHubRateLimitError"}

\* line 255
SaveToJson ==
    /\ main_pc = "call"
    /\ Handoff
    /\ files' = files \o save_to_json(result).files
    /\ main_pc' = "json"
    /\ UNCHANGED <<run, parse_arg, parse_ret>>

\* line 258, and the except clause when save_to_csv raises
SaveToCsv ==
    /\ main_pc = "json"
    /\ \E c \in {save_to_csv(result)} :
          /\ files' = files \o c.files
          /\ main_pc' = IF c.raises = "none" THEN "end"
                        ELSE IF CaughtByMain(c.raises) THEN "caught"
                        ELSE "crashed"
    /\ UNCHANGED <<run, parse_arg, parse_ret>>

\* lines 262-263: an exception that left get_paginated_data is logged
MainCatch ==
    /\ main_pc = "call"
    /\ pc = "raised"
    /\ main_pc' = IF CaughtByMain(exc) THEN "caught" ELSE "crashed"
    /\ UNCHANGED <<run, files, parse_arg, parse_ret>>

MainNext ==
    \/ Next
    \/ SaveToJson
    \/ SaveToCsv
    \/ MainCatch

MainSpec == MainInit /\ [][MainNext]_vars

(***************************************************************************)
(* parse_data on its own: one call on a body drawn from lists, mappings    *)
(* (the metadata keys and two other keys, in every order), None and        *)
(* numbers.                                                                *)
(***************************************************************************)
ParseKeys == MetaKeys \cup {"items", "errors"}

\* the orders in which a mapping can hold some of the keys
KeyOrders ==
    {k \in UNION {[1..n -> ParseKeys] : n \in 0..MaxDictLen} :
        \A i, j \in DOMAIN k : i # j => k[i] # k[j]}

\* the values the key items is given: lists, a mapping, a number, null
ItemValues ==
    {JList(<<11, 12>>), JList(<<>>), JDict(<<KV("id", JNum(1))>>), JNum(5), JNull}

ValOf(key, v) ==
    IF key \in MetaKeys THEN JNum(2)
    ELSE IF key = "items" THEN v
    ELSE JList(<<91>>)

ParseDicts ==
    {JDict([i \in DOMAIN k |-> KV(k[i], ValOf(k[i], v))]) :
        k \in KeyOrders, v \in ItemValues}

ParseLists == {JList(l) : l \in UNION {[1..n -> {11, 12}] : n \in 0..MaxListLen}}

ParseInputs == ParseLists \cup ParseDicts \cup {JNull, JNum(0), JNum(7)}

ParseInit ==
    /\ Called("", 0)
    /\ main_pc = "none"
    /\ files = <<>>
    /\ parse_arg \in ParseInputs
    /\ parse_ret = NotParsed

\* parse_data(parse_arg, 1)
Parse ==
    /\ parse_ret = NotParsed
    /\ parse_ret' = parse_data(parse_arg)
    /\ UNCHANGED <<pc, token, tokenCalls, max_retries, url, pages_remaining, data,
                   retries, page_number, response, current_time, exc, result, got,
                   slept, pre, nreq, seen, streak, nlimited, fetched, main_pc,
                   files, parse_arg>>

ParseSpec == ParseInit /\ [][Parse]_vars

(***************************************************************************)
(* Properties.                                                             *)
(***************************************************************************)
\* the latest request was answered by a response of this status
Answered(status) == got = "response" /\ response.status = status

\* the header is present and its text is this integer, written in digits
HeaderIs(h, n) == h.has /\ AllDigits(h.v) /\ DigitsVal(h.v) = n

HeaderIsInt(h) == h.has /\ AllDigits(h.v)

\* the latest round slept in the except clause
BackedOff == \E i \in 1..Len(slept) : slept[i].by = "backoff"

\* the latest round slept in check_rate_limit
GateSlept == \E i \in 1..Len(slept) : slept[i].by = "check_rate_limit"

\* C1: a 403 response whose remaining-quota header is nonzero ends the run
\* at once with a fatal error raised to the caller: no backoff wait, no
\* further request, nothing returned, whatever max_retries is.
C1_ForbiddenIsFatal ==
    (/\ Answered(403)
     /\ HeaderIsInt(response.remaining)
     /\ ~HeaderIs(response.remaining, 0)
     /\ ~response.reset.has \/ HeaderIsInt(response.reset))
    => (/\ pc = "raised"
        /\ exc = "HTTPError"
        /\ ~BackedOff
        /\ retries = pre.retries)

\* C2: an unsuccessful status other than 403 is propagated to the caller at
\* once: the retry counter is not incremented, there is no backoff wait and
\* the request is not issued again.
C2_HttpErrorIsFatal ==
    (got = "response" /\ response.status # 403 /\ response.status >= 400)
    => (/\ pc = "raised"
        /\ exc = "HTTPError"
        /\ ~BackedOff
        /\ retries = pre.retries)

\* every request so far was answered with a success status
Clean == seen \subseteq {"ok"}

\* h is a list of entries <url>; rel="name" separated by a comma and a space
RECURSIVE IsEntries(_)
IsEntries(h) ==
    /\ Len(h) >= 6
    /\ h[1] = LT /\ h[2].t = "url" /\ h[3] = GT /\ h[4] = SEMI /\ h[5] = SP
    /\ h[6].t \in {"rel=next", "rel=prev", "rel=last", "rel=first"}
    /\ \/ Len(h) = 6
       \/ /\ Len(h) >= 8
          /\ h[7] = COMMA
          /\ h[8] = SP
          /\ IsEntries(SubSeq(h, 9, Len(h)))

\* the page is a bare list and its Link header, if any, is a list of entries
PlainPage(r) ==
    /\ r.body.kind = "list"
    /\ r.link.has => IsEntries(r.link.v)

\* the concatenation of the lists of the bodies, in order
RECURSIVE Flatten(_)
Flatten(bodies) ==
    IF bodies = <<>> THEN <<>> ELSE Head(bodies).list \o Flatten(Tail(bodies))

\* C3: when every request succeeds and every page is a list of k items
\* linked to the next by a rel="next" entry, the run issues one request per
\* page (the start url, then each next url in turn) and returns the N*k
\* items, pages in arrival order and each page in server order.
C3_AllPagesInOrder ==
    (/\ Clean
     /\ nreq >= 1
     /\ PlainPage(response)
     /\ \A i \in 1..Len(fetched) : fetched[i].kind = "list")
    => (/\ pc \in {"loop", "exit", "returned"}
        /\ nreq = Len(fetched)
        /\ pre.url = <<UrlAtom(nreq)>>
        /\ data = Flatten(fetched)
        /\ \A i \in 1..Len(fetched) : fetched[i].list = PageItems(i)
        /\ pages_remaining => url = <<UrlAtom(nreq + 1)>>
        /\ pc = "returned"
           => (/\ Done
               /\ nreq = page_number
               /\ result = Flatten(fetched)
               /\ Len(result) = nreq * Len(PageItems(1))))

\* two linked pages of two items each were fetched and returned in order
C3_Witness ==
    /\ Done
    /\ Clean
    /\ nreq = 2
    /\ result = <<11, 12, 21, 22>>

\* the frame of a rate-limit round: the run goes on with the same url, page
\* number, retry counter and result, after the wait of check_rate_limit alone
SameRequestAgain ==
    /\ pc = "loop"
    /\ LoopCondition
    /\ exc = "none"
    /\ GateSlept
    /\ ~BackedOff
    /\ url = pre.url
    /\ page_number = pre.page_number
    /\ retries = pre.retries
    /\ data = pre.data

\* C4 as stated: every 403 response with remaining quota 0 is followed by the
\* wait and the same request again, and is never an error for the caller.
C4_Original ==
    (Answered(403) /\ HeaderIs(response.remaining, 0)) => SameRequestAgain

\* C4, amended: a 403 response with remaining quota 0 whose reset header is
\* absent or an integer is followed by the wait and the same request again,
\* with url, page number, retry counter and result unchanged and no error;
\* with a reset header that is no integer the run ends with a ValueError.
C4_RateLimitRound ==
    (Answered(403) /\ HeaderIs(response.remaining, 0))
    => IF ~response.reset.has \/ HeaderIsInt(response.reset)
       THEN SameRequestAgain
       ELSE pc = "raised" /\ exc = "ValueError"

\* the second rate-limit round of a run, after a fetched page and a failure
C4_Witness ==
    /\ Answered(403)
    /\ HeaderIs(response.remaining, 0)
    /\ HeaderIsInt(response.reset)
    /\ nlimited = 2
    /\ retries = 1
    /\ data # <<>>
    /\ pc = "loop"

\* C5: transport exceptions on max_retries attempts in a row end the run
\* without an exception; it returns the items of the pages fetched before
\* them (the empty list when the first page was never fetched).
C5_PartialResultOnAbort ==
    (max_retries > 0 /\ streak >= max_retries)
    => (/\ pc \in {"exit", "returned"}
        /\ exc = "none"
        /\ got = "exception"
        /\ data = pre.data
        /\ data = Flatten(fetched)
        /\ pc = "returned" => (Aborted /\ result = Flatten(fetched)))

\* one page was fetched, then three transport exceptions in a row ended the
\* run, which returned that page's items
C5_Witness ==
    /\ Aborted
    /\ max_retries = 3
    /\ streak = 3
    /\ nreq = 4
    /\ result = <<11, 12>>

\* the latest round was a failure: a transport exception or an error status
FailedRound == got = "exception" \/ (got = "response" /\ response.status >= 400)

C7_RetryBounds ==
    /\ 0 <= retries
    /\ retries <= max_retries
    /\ nreq >= 1 => pre.retries < max_retries
    /\ (max_retries > 0 /\ streak >= max_retries)
       => (pc \in {"exit", "returned"} /\ pages_remaining /\ retries = max_retries)
    /\ (Answered(403) /\ GateSlept) => (retries = pre.retries /\ pc = "loop")

\* three transport exceptions with a rate-limit round among them: ABORTED
C7_Witness ==
    /\ Aborted
    /\ max_retries = 3
    /\ retries = 3
    /\ streak = 2
    /\ nlimited = 1
    /\ nreq = 4
    /\ seen = {"exception", "403"}

\* what is left of a run: the pages the server may still link, the rate-limit
\* rounds it may still cause, the failures the ceiling still allows, and the
\* steps from the loop to the return
Rank ==
    LET pagesLeft == MaxPages - page_number + (IF pages_remaining THEN 1 ELSE 0)
        limitsLeft == MaxRateLimited - nlimited
        triesLeft == max_retries - retries
        stage == IF pc = "start" THEN 3
                 ELSE IF pc = "loop" THEN 2
                 ELSE IF pc = "exit" THEN 1
                 ELSE 0
    IN ((pagesLeft * (MaxRateLimited + 1) + limitsLeft) * (MaxRetries + 2)
        + triesLeft) * 4 + stage

C9_GateWait ==
    /\ (/\ Answered(403)
        /\ HeaderIs(response.remaining, 0)
        /\ HeaderIsInt(response.reset))
       => (/\ slept = <<Sleep("check_rate_limit", slept[1].secs)>>
           /\ slept[1].secs >= 0
           /\ slept[1].secs >= DigitsVal(response.reset.v) - current_time + 1
           /\ \/ slept[1].secs = 0
              \/ slept[1].secs = DigitsVal(response.reset.v) - current_time + 1
           /\ DigitsVal(response.reset.v) = current_time + 5 => slept[1].secs = 6
           /\ DigitsVal(response.reset.v) < current_time => slept[1].secs = 0
           /\ pc = "loop"
           /\ retries = pre.retries)
    /\ (/\ Answered(403)
        /\ HeaderIsInt(response.remaining)
        /\ ~HeaderIs(response.remaining, 0)
        /\ HeaderIsInt(response.reset))
       => (/\ ~GateSlept
           /\ retries = pre.retries + 1)

\* the reset is 5 seconds ahead and the wait was 6 seconds
C9_Witness ==
    /\ Answered(403)
    /\ HeaderIs(response.remaining, 0)
    /\ HeaderIs(response.reset, current_time + 5)
    /\ slept = <<Sleep("check_rate_limit", 6)>>
    /\ pc = "loop"

\* the header is present and its text is no integer
HeaderIsJunk(h) == h.has /\ ~AllDigits(h.v)

\* C10 as stated: check_rate_limit takes 0 for a quota header that is absent
\* or is no integer, and never fails for such a header.
C10_Original ==
    (Answered(403) /\ (~HeaderIsInt(response.remaining) \/ ~HeaderIsInt(response.reset)))
    => (/\ exc # "ValueError"
        /\ ~HeaderIsInt(response.remaining) => (GateSlept /\ pc = "loop")
        /\ (GateSlept /\ ~HeaderIsInt(response.reset))
           => slept = <<Sleep("check_rate_limit", Max(0 - current_time + 1, 0))>>)

\* C10, amended: check_rate_limit takes 0 for a quota header that is absent;
\* a header whose value is no integer makes it raise ValueError, which ends
\* the run.
C10_AbsentIsZero ==
    Answered(403)
    => IF HeaderIsJunk(response.remaining) \/ HeaderIsJunk(response.reset)
       THEN pc = "raised" /\ exc = "ValueError" /\ ~GateSlept
       ELSE /\ exc # "ValueError"
            /\ ~response.remaining.has => (GateSlept /\ pc = "loop")
            /\ (GateSlept /\ ~response.reset.has)
               => slept = <<Sleep("check_rate_limit", Max(0 - current_time + 1, 0))>>

\* a 403 response without quota headers was taken for remaining 0, reset 0
C10_Witness ==
    /\ Answered(403)
    /\ ~response.remaining.has
    /\ ~response.reset.has
    /\ slept = <<Sleep("check_rate_limit", 0)>>
    /\ pc = "loop"
    /\ retries = pre.retries

\* parse_data was called on its own and has ended
Parsed == parse_ret # NotParsed

\* the places of the keys of a mapping that are no metadata keys
OtherKeys(pairs) == {i \in DOMAIN pairs : pairs[i].key \notin MetaKeys}

\* the place of the first such key
FirstOther(pairs) == CHOOSE i \in OtherKeys(pairs) : \A j \in OtherKeys(pairs) : i <= j

\* the metadata keys were popped twice, and once
StripTwice(pairs) == StripMeta(StripMeta(pairs))

\* C11 as stated: for a mapping that holds metadata keys and exactly one
\* other key, in any order, parse_data returns the value of that key as it
\* is; stripping the metadata keys twice gives what stripping them once gives.
C11_Original ==
    (/\ Parsed
     /\ parse_arg.kind = "dict"
     /\ Cardinality(OtherKeys(parse_arg.dict)) = 1)
    => (/\ parse_ret = Returns(parse_arg.dict[FirstOther(parse_arg.dict)].val)
        /\ StripTwice(parse_arg.dict) = StripMeta(parse_arg.dict))

\* C11, amended: for such a mapping parse_data returns the value of the
\* other key as it is when that value is a list or a mapping, and raises
\* TypeError when it is a number or null; stripping the metadata keys leaves
\* that key alone, and stripping twice gives what stripping once gives.
C11_WrappedValue ==
    (/\ Parsed
     /\ parse_arg.kind = "dict"
     /\ Cardinality(OtherKeys(parse_arg.dict)) = 1)
    => LET v == parse_arg.dict[FirstOther(parse_arg.dict)].val
       IN /\ IF v.kind \in {"list", "dict"}
             THEN parse_ret = Returns(v)
             ELSE parse_ret.raises = "TypeError"
          /\ StripMeta(parse_arg.dict) = <<parse_arg.dict[FirstOther(parse_arg.dict)]>>
          /\ StripTwice(parse_arg.dict) = StripMeta(parse_arg.dict)

\* the three metadata keys around the key items, whose list was returned
C11_Witness ==
    /\ Parsed
    /\ Len(parse_arg.dict) = 4
    /\ parse_arg.dict[1].key = "repository_selection"
    /\ parse_arg.dict[3].key = "items"
    /\ parse_ret = Returns(JList(<<11, 12>>))

\* C12: for a body that is a list, the empty list too, parse_data returns
\* the list itself: the same items in the same order.
C12_ListIdentity ==
    (Parsed /\ parse_arg.kind = "list")
    => (/\ parse_ret.raises = "none"
        /\ parse_ret.ret = parse_arg
        /\ Len(parse_ret.ret.list) = Len(parse_arg.list)
        /\ \A i \in 1..Len(parse_arg.list) : parse_ret.ret.list[i] = parse_arg.list[i])

\* a list of two items in falling order came back as it was
C12_Witness ==
    /\ Parsed
    /\ parse_arg = JList(<<12, 11>>)
    /\ parse_ret = Returns(JList(<<12, 11>>))

\* the latest response is a page without a body: null, or a mapping
\* without keys
EmptyPage == Answered(200) /\ response.body \in {JNull, JDict(<<>>)}

\* the Link header of the latest response names a next page in the form
\* the pattern does not match
LinkUnmatched == HasNext(response.link) /\ ~next_pattern_search(response.link.v).found

\* C13: for a body that is null or a mapping without keys parse_data returns
\* the empty list and raises nothing: the page adds no item to the result and
\* the run goes on as after any other page.
C13_EmptyPage ==
    EmptyPage
    => (/\ parse_data(response.body) = Returns(JList(<<>>))
        /\ data = pre.data
        /\ fetched # <<>> /\ fetched[Len(fetched)] = response.body
        /\ exc \notin {"IndexError", "TypeError", "ValueError", "HTTPError"}
        /\ ~LinkUnmatched
           => (/\ pc \in {"loop", "exit", "returned"}
               /\ exc = "none"
               /\ retries = 0
               /\ slept = <<>>
               /\ pages_remaining = HasNext(response.link)
               /\ page_number = pre.page_number + (IF pages_remaining THEN 1 ELSE 0)))

\* the second page was a mapping without keys: the run returned the items
\* of the first page
C13_Witness ==
    /\ EmptyPage
    /\ response.body = JDict(<<>>)
    /\ Done
    /\ nreq = 2
    /\ result = <<11, 12>>

\* C14: get_github_token is called at most once in a run, only when the
\* caller supplied no token and before the first request; with a token
\* supplied it is never called, and no round of the loop (a retry, a
\* rate-limit round, a later page) calls it or changes the token.
C14_TokenResolvedOnce ==
    /\ [](tokenCalls \in {0, 1})
    /\ [](token = "supplied" => tokenCalls = 0)
    /\ [](nreq >= 1 => tokenCalls = (IF token = "supplied" THEN 0 ELSE 1))
    /\ [][tokenCalls' # tokenCalls
          => (/\ token = ""
              /\ tokenCalls = 0
              /\ tokenCalls' = 1
              /\ pc = "start"
              /\ nreq = 0
              /\ nreq' = 0)]_vars
    /\ [][pc # "start" => (token' = token /\ tokenCalls' = tokenCalls)]_vars

\* a run without a supplied token that has had a retry, a rate-limit round
\* and a second page, with one call of get_github_token
C14_Witness ==
    /\ token = "resolved"
    /\ tokenCalls = 1
    /\ page_number = 2
    /\ nlimited >= 1
    /\ "exception" \in seen
    /\ nreq >= 4

\* C15 as stated: the writers run only after get_paginated_data has
\* returned, save_to_json first; whenever main has caught an error, no
\* output file has been produced.
C15_Original ==
    /\ files # <<>> => (pc = "returned" /\ files[1].name = "json")
    /\ main_pc # "crashed"
    /\ main_pc = "caught" => files = <<>>

\* C15, amended: the writers run only after get_paginated_data has returned,
\* save_to_json first and with the value returned; an error that leaves
\* get_paginated_data is caught by main and no output file is produced; an
\* error raised by save_to_csv is caught as well, with the JSON file and the
\* rows of the CSV file written before it left behind.
C15_SinksAfterReturn ==
    /\ files # <<>>
       => (/\ pc = "returned"
           /\ main_pc \in {"json", "end", "caught"}
           /\ files[1] = File("json", Len(result))
           /\ Len(files) <= 2
           /\ Len(files) = 2 => (files[2].name = "csv" /\ main_pc \in {"end", "caught"}))
    /\ main_pc # "crashed"
    /\ pc = "raised" => (files = <<>> /\ main_pc \in {"call", "caught"})
    /\ (main_pc = "caught" /\ pc = "returned")
       => (/\ Len(files) = 2
           /\ files[2].rows < Len(result)
           /\ save_to_csv(result).raises = "ValueError")
    /\ main_pc = "end"
       => (/\ pc = "returned"
           /\ Len(files) = (IF result = <<>> THEN 1 ELSE 2)
           /\ \A i \in 1..Len(files) : files[i].rows = Len(result))

\* an error left get_paginated_data after a page was fetched; main caught
\* it and wrote no file
C15_Witness ==
    /\ main_pc = "caught"
    /\ pc = "raised"
    /\ exc = "ValueError"
    /\ data # <<>>
    /\ files = <<>>

\* the step is a round of the loop that fetched a page: a response with a
\* success status whose body was parsed
FetchedPage == /\ nreq' = nreq + 1
               /\ got' = "response"
               /\ response'.status = 200
               /\ Len(fetched') = Len(fetched) + 1

\* C16: the result is append-only.  In every state it is the concatenation,
\* in the order of fetching, of the items of the pages fetched so far, each
\* page once; a step changes it only by appending the parsed items of the
\* page that step fetched; a round that ends in a transport exception, a
\* rate-limit wait or an error status leaves it as it is.
C16_AppendOnly ==
    /\ [](data = Flatten(fetched))
    /\ [](pc = "returned" => result = Flatten(fetched))
    /\ [][\/ data' = data /\ fetched' = fetched
          \/ /\ FetchedPage
             /\ fetched' = Append(fetched, response'.body)
             /\ data' = data \o parse_data(response'.body).ret.list]_vars
    /\ [][(nreq' = nreq + 1 /\ (got' = "exception" \/ response'.status # 200))
          => (data' = data /\ fetched' = fetched /\ url' = url)]_vars

\* two pages fetched in a run that also had a transport exception and two
\* rate-limit rounds
C16_Witness ==
    /\ data = <<11, 12, 21, 22>>
    /\ Len(fetched) = 2
    /\ nlimited = 2
    /\ "exception" \in seen
    /\ nreq = 5
    /\ Done

\* C17: after a transport failure that leaves the incremented counter below
\* the ceiling the run waits 2^retries seconds, retries being the counter
\* after the increment (2 s after the first failure in a row, 4 s after the
\* second), and requests the same url again; on the failure that reaches the
\* ceiling it leaves the loop without waiting.
C17_Backoff ==
    got = "exception"
    => (/\ retries = pre.retries + 1
        /\ url = pre.url
        /\ page_number = pre.page_number
        /\ IF retries < max_retries
           THEN /\ pc = "loop"
                /\ LoopCondition
                /\ Len(slept) = 1
                /\ slept[1].by = "backoff"
                /\ slept[1].secs = Pow2(retries)
                /\ retries = 1 => slept[1].secs = 2
                /\ retries = 2 => slept[1].secs = 4
                /\ retries = 3 => slept[1].secs = 8
           ELSE /\ pc \in {"exit", "returned"}
                /\ retries = max_retries
                /\ slept = <<>>)

\* the second transport exception in a row was followed by a wait of 4 s
C17_Witness ==
    /\ got = "exception"
    /\ streak = 2
    /\ retries = 2
    /\ max_retries = 3
    /\ slept = <<Sleep("backoff", 4)>>
    /\ pc = "loop"

\* parse_data was called on a mapping that holds no key, or more than one
\* key, besides the metadata keys
OddShape ==
    /\ Parsed
    /\ parse_arg.kind = "dict"
    /\ Cardinality(OtherKeys(parse_arg.dict)) # 1

\* C18 as stated: for a mapping with zero or with more than one key left
\* after the metadata keys are removed, parse_data returns the value of the
\* first key that is left and raises no error.
C18_Original ==
    OddShape
    => (/\ parse_ret.raises = "none"
        /\ OtherKeys(parse_arg.dict) # {}
           => parse_ret.ret = parse_arg.dict[FirstOther(parse_arg.dict)].val)

\* C18, amended: with more than one key left parse_data returns the value of
\* the first of them, in the order of the mapping, when that value is a list
\* or a mapping, and raises TypeError when it is a number or null; with no
\* key left it raises IndexError, unless the mapping held no key at all, for
\* which it returns the empty list.
C18_FirstKeyLeft ==
    OddShape
    => IF OtherKeys(parse_arg.dict) # {}
       THEN LET v == parse_arg.dict[FirstOther(parse_arg.dict)].val
            IN IF v.kind \in {"list", "dict"}
               THEN parse_ret = Returns(v)
               ELSE parse_ret.raises = "TypeError"
       ELSE IF parse_arg.dict = <<>>
       THEN parse_ret = Returns(JList(<<>>))
       ELSE parse_ret.raises = "IndexError"

\* two keys were left, errors before items: the value of errors came back
C18_Witness ==
    /\ OddShape
    /\ Len(parse_arg.dict) = 3
    /\ parse_arg.dict[1].key = "total_count"
    /\ parse_arg.dict[2].key = "errors"
    /\ parse_arg.dict[3] = KV("items", JList(<<11, 12>>))
    /\ parse_ret = Returns(JList(<<91>>))

\* C19: a 403 response without a remaining-quota header is not handled as a
\* rate-limit round (the same request again with the retry counter as it
\* was); the run ends with a fatal error.
C19_NoQuotaHeaderIsFatal ==
    (Answered(403) /\ ~response.remaining.has)
    => (/\ ~GateSlept
        /\ ~(pc = "loop" /\ retries = pre.retries /\ url = pre.url)
        /\ pc = "raised")

\* C20: when a fetched page's Link header holds the text rel="next", the
\* next url is extracted from it: no exception, and the run goes on with
\* the url of the rel="next" entry.
C20_NextUrlExtracted ==
    (/\ Answered(200)
     /\ parse_data(response.body).raises = "none"
     /\ HasNext(response.link))
    => (/\ exc = "none"
        /\ pc = "loop"
        /\ pages_remaining
        /\ next_pattern_search(response.link.v).found
        /\ url = <<UrlAtom(pre.page_number + 1)>>
        /\ page_number = pre.page_number + 1)

====
